---------------------------- MODULE Spec2Model ----------------------------
(***************************************************************************)
(* The two altitude-triggered collector-door controllers of the            *)
(* repository:                                                             *)
(*                                                                         *)
(*   collector_arduino.py    main_loop()   (CircuitPython board)           *)
(*   meteorite_collector.py  main()        (Raspberry Pi, RPi.GPIO)        *)
(*                                                                         *)
(* One behaviour of the model is one run of one of the two scripts; the    *)
(* variable prog says which.  The hardware (BME280 sensor, servo/PWM) is   *)
(* the environment: every library call may return or raise, and an         *)
(* altitude read may return a number or None.                              *)
(*                                                                         *)
(* Name binding in collector_arduino.main_loop.  main_loop declares        *)
(*     global collector_is_open, bme280_sensor          (line 103)         *)
(* and assigns  collector_servo = None  at line 174.  collector_servo is   *)
(* therefore a LOCAL variable of main_loop, distinct from the module       *)
(* global of the same name that setup_servo, open_collector_door and       *)
(* close_collector_door use.  The local is unbound until line 174 runs,    *)
(* and line 131 (`if not collector_servo:`) reads it first, outside the    *)
(* try block: the read raises UnboundLocalError (NameError on              *)
(* CircuitPython) and main_loop ends.  Lines 132-177 are never executed,   *)
(* so the model has no action for them.                                    *)
(***************************************************************************)
EXTENDS Integers, Sequences, FiniteSets, TLC

VARIABLES
    prog,                   \* which script runs
    pc,                     \* control location in main_loop / main
    collector_is_open,      \* module global of both scripts
    bme280_sensor,          \* collector_arduino: module global sensor handle
    collector_servo,        \* collector_arduino: module global servo handle
    local_collector_servo,  \* collector_arduino: main_loop's local of that name
    bme280,                 \* meteorite_collector: main's local sensor handle
    pwm,                    \* meteorite_collector: module global PWM handle
    servo_angle,            \* angle of the last write the servo accepted
    current_altitude,       \* result of the latest altitude read
    read_state,             \* how the latest altitude read ended
    cycle_open,             \* collector_is_open when the current cycle began
    issued,                 \* command the hysteresis rule gave in this cycle
    cmd_result,             \* how the latest door command ended
    prev_cmd,               \* latest hysteresis command of an earlier cycle
    run_alt,                \* the reading shared by all cycles since prev_cmd
    run_open,               \* collector_is_open when prev_cmd's cycle began
    since_read,             \* seconds slept since the latest altitude read
    since_init,             \* seconds slept since the latest initialize_bme280
    reinit_gap,             \* seconds slept between the latest two of them
    last_init,              \* how the latest initialize_bme280 call ended
    prev_init,              \* how the one before it ended
    raised                  \* exception that left main_loop / main's loop

vars == << prog, pc, collector_is_open, bme280_sensor, collector_servo,
           local_collector_servo, bme280, pwm, servo_angle, current_altitude,
           read_state, cycle_open, issued, cmd_result, prev_cmd, run_alt,
           run_open, since_read, since_init, reinit_gap, last_init, prev_init, raised >>

-----------------------------------------------------------------------------
(* Program constants *)

ALTITUDE_OPEN == 20000
ALTITUDE_CLOSE == 18000
SERVO_OPEN_ANGLE == 90
SERVO_CLOSED_ANGLE == 0

\* collector_arduino.main_loop: time.sleep(5) before a re-initialization,
\* time.sleep(25) after a failed one.
SHORT_RETRY_DELAY == 5
LONG_RETRY_DELAY == 25

\* meteorite_collector: time.sleep(10) after a None reading, time.sleep(30)
\* at the end of a cycle, time.sleep(1) inside set_servo_angle.
FAULT_DELAY == 10
POLL_INTERVAL == 30
SERVO_MOVE_TIME == 1

\* Python's None for an altitude, and a reading v.  (A reading is a float;
\* the samples below are the integers around the two thresholds.)
NoAltitude == << >>
Reading(v) == << v >>

\* Altitudes the sensor may report: below, at, between, at and above the
\* thresholds.
Altitudes == { ALTITUDE_CLOSE - 1, ALTITUDE_CLOSE, ALTITUDE_CLOSE + 500,
               ALTITUDE_OPEN - 1, ALTITUDE_OPEN, ALTITUDE_OPEN + 1 }

NoCmd == << "none", "none" >>

\* The servo position is unknown until a write has been accepted.
NoAngle == << >>
Angle(a) == << a >>

-----------------------------------------------------------------------------
(* The hysteresis rule: meteorite_collector.main lines 129-137 (the same   *)
(* text as collector_arduino.main_loop lines 152-160).                     *)

MutHysteresisInclusive(is_open, alt) ==
    IF ~is_open /\ alt >= ALTITUDE_OPEN THEN "open"
    ELSE IF is_open /\ alt <= ALTITUDE_CLOSE THEN "close"
    ELSE "none"

HysteresisCommand(is_open, alt) ==
    IF ~is_open /\ alt > ALTITUDE_OPEN THEN "open"
    ELSE IF is_open /\ alt < ALTITUDE_CLOSE THEN "close"
    ELSE "none"

TargetAngle(cmd) == IF cmd = "open" THEN SERVO_OPEN_ANGLE ELSE SERVO_CLOSED_ANGLE

-----------------------------------------------------------------------------
Init ==
    /\ prog \in {"collector_arduino", "meteorite_collector"}
    /\ pc = IF prog = "collector_arduino" THEN "a_init" ELSE "r_init"
    /\ collector_is_open = FALSE
    /\ bme280_sensor = "None"
    /\ collector_servo = "None"
    /\ local_collector_servo = "unbound"
    /\ bme280 = "None"
    /\ pwm = "None"
    /\ servo_angle = NoAngle
    /\ current_altitude = NoAltitude
    /\ read_state = "unread"
    /\ cycle_open = FALSE
    /\ issued = "none"
    /\ cmd_result = "none"
    /\ prev_cmd = NoCmd
    /\ run_alt = NoAltitude
    /\ run_open = FALSE
    /\ since_read = 0
    /\ since_init = 0
    /\ reinit_gap = 0
    /\ last_init = "none"
    /\ prev_init = "none"
    /\ raised = "none"

-----------------------------------------------------------------------------
(*                  collector_arduino.py : main_loop                        *)

\* Python's `while True` body restarts at line 123; a `continue` goes there.
LoopTop == "a_loop"

\* initialize_bme280(): the global handle is the sensor object when every
\* statement of the try block succeeded, None when any of them raised.
initialize_bme280(ok) == IF ok THEN "obj" ELSE "None"

\* setup_servo(): likewise for the global collector_servo; the last statement
\* of the try block that can raise is the write of SERVO_CLOSED_ANGLE.
setup_servo(ok) == IF ok THEN "obj" ELSE "None"

\* Lines 106-108: the first initialize_bme280(); main_loop goes on either way.
A_init ==
    /\ prog = "collector_arduino" /\ pc = "a_init"
    /\ \E ok \in BOOLEAN :
          /\ bme280_sensor' = initialize_bme280(ok)
          /\ last_init' = IF ok THEN "startup_ok" ELSE "startup_fail"
    /\ prev_init' = last_init
    /\ reinit_gap' = since_init
    /\ since_init' = 0
    /\ pc' = "a_setup"
    /\ UNCHANGED << prog, collector_is_open, collector_servo,
                    local_collector_servo, bme280, pwm, servo_angle,
                    current_altitude, read_state, cycle_open, issued,
                    cmd_result, prev_cmd, run_alt, run_open, since_read, raised >>

\* Lines 110-113: setup_servo(); on success line 115 follows.
A_setup ==
    /\ prog = "collector_arduino" /\ pc = "a_setup"
    /\ \E ok \in BOOLEAN :
          /\ collector_servo' = setup_servo(ok)
          /\ servo_angle' = IF ok THEN Angle(SERVO_CLOSED_ANGLE) ELSE servo_angle
          /\ pc' = IF ok THEN "a_close" ELSE LoopTop
    /\ UNCHANGED << prog, collector_is_open, bme280_sensor,
                    local_collector_servo, bme280, pwm, current_altitude,
                    read_state, cycle_open, issued, cmd_result, prev_cmd,
                    run_alt, run_open, since_read, since_init, reinit_gap, last_init,
                    prev_init, raised >>

\* close_collector_door(), lines 88-99: the global collector_servo is tested;
\* a write that raises is caught and printed, and nothing else is assigned.
ServoAfterWrite(servo, ok) == servo

\* Line 94: collector_is_open = False, reached when the write of line 93
\* returned.
MutCloseSetsOpen(ok, old) == IF ok THEN TRUE ELSE old

DoorAfterClose(ok, old) == IF ok THEN FALSE ELSE old

\* Line 115: close_collector_door() after the first setup_servo() succeeded.
A_close ==
    /\ prog = "collector_arduino" /\ pc = "a_close"
    /\ \E ok \in BOOLEAN :
          IF collector_servo = "obj"
          THEN /\ servo_angle' = IF ok THEN Angle(SERVO_CLOSED_ANGLE) ELSE servo_angle
               /\ collector_is_open' = DoorAfterClose(ok, collector_is_open)
               /\ cmd_result' = IF ok THEN "ok" ELSE "raised"
               /\ collector_servo' = ServoAfterWrite(collector_servo, ok)
          ELSE UNCHANGED << servo_angle, collector_is_open, cmd_result,
                            collector_servo >>
    /\ pc' = LoopTop
    /\ UNCHANGED << prog, bme280_sensor, local_collector_servo, bme280, pwm,
                    current_altitude, read_state, cycle_open, issued,
                    prev_cmd, run_alt, run_open, since_read, since_init, reinit_gap,
                    last_init, prev_init, raised >>

\* Lines 126-130: where the cycle goes after initialize_bme280() returned.
MutReinitNoContinue(ok) == "a_servo_step"

AfterSensorReinit(ok) == IF ok THEN "a_servo_step" ELSE LoopTop

\* Line 128: the sleep after a failed re-initialization.
MutNoLongSleep(ok) == 0

SleepAfterSensorReinit(ok) == IF ok THEN 0 ELSE LONG_RETRY_DELAY

\* Lines 123-129: with the sensor handle None, sleep 5, initialize_bme280();
\* on failure sleep 25 and `continue`.  With the handle set, go on to 131.
A_sensor_step ==
    /\ prog = "collector_arduino" /\ pc = "a_loop"
    /\ IF bme280_sensor = "None"
       THEN \E ok \in BOOLEAN :
               /\ bme280_sensor' = initialize_bme280(ok)
               /\ prev_init' = last_init
               /\ last_init' = IF ok THEN "reinit_ok" ELSE "reinit_fail"
               /\ reinit_gap' = since_init + SHORT_RETRY_DELAY
               /\ since_init' = SleepAfterSensorReinit(ok)
               /\ pc' = AfterSensorReinit(ok)
       ELSE /\ pc' = "a_servo_step"
            /\ UNCHANGED << bme280_sensor, prev_init, last_init, reinit_gap,
                            since_init >>
    /\ UNCHANGED << prog, collector_is_open, collector_servo,
                    local_collector_servo, bme280, pwm, servo_angle,
                    current_altitude, read_state, cycle_open, issued,
                    cmd_result, prev_cmd, run_alt, run_open, since_read, raised >>

\* Line 131, `if not collector_servo:`.  The name is main_loop's local; the
\* only statement that binds it is line 174, which cannot run before this
\* one.  Reading the unbound local raises, outside any try block.
A_servo_step ==
    /\ prog = "collector_arduino" /\ pc = "a_servo_step"
    /\ local_collector_servo = "unbound"
    /\ raised' = "UnboundLocalError"
    /\ pc' = "a_terminated"
    /\ UNCHANGED << prog, collector_is_open, bme280_sensor, collector_servo,
                    local_collector_servo, bme280, pwm, servo_angle,
                    current_altitude, read_state, cycle_open, issued,
                    cmd_result, prev_cmd, run_alt, run_open, since_read, since_init,
                    reinit_gap, last_init, prev_init >>

\* An external cancellation (Ctrl-C on the serial console): no handler in the
\* script, so KeyboardInterrupt ends main_loop wherever it is.
A_KeyboardInterrupt ==
    /\ prog = "collector_arduino" /\ pc \in {"a_loop", "a_servo_step"}
    /\ raised' = "KeyboardInterrupt"
    /\ pc' = "a_terminated"
    /\ UNCHANGED << prog, collector_is_open, bme280_sensor, collector_servo,
                    local_collector_servo, bme280, pwm, servo_angle,
                    current_altitude, read_state, cycle_open, issued,
                    cmd_result, prev_cmd, run_alt, run_open, since_read, since_init,
                    reinit_gap, last_init, prev_init >>

-----------------------------------------------------------------------------
(*                    meteorite_collector.py : main                         *)

RVars == << bme280_sensor, collector_servo, local_collector_servo,
            since_init, reinit_gap, last_init, prev_init >>

\* Lines 108-111: initialize_bme280() returns the sensor or None; with None
\* main returns before the loop.
R_init ==
    /\ prog = "meteorite_collector" /\ pc = "r_init"
    /\ \E ok \in BOOLEAN :
          /\ bme280' = IF ok THEN "obj" ELSE "None"
          /\ pc' = IF ok THEN "r_setup" ELSE "r_returned"
    /\ UNCHANGED << prog, collector_is_open, pwm, servo_angle,
                    current_altitude, read_state, cycle_open, issued,
                    cmd_result, prev_cmd, run_alt, run_open, since_read, raised >>
    /\ UNCHANGED RVars

\* Line 113, setup_servo() lines 45-62: on success pwm is set and the servo
\* has been driven to SERVO_CLOSED_ANGLE (collector_is_open is not assigned).
\* Any exception ends the process through exit(); pwm is bound or not
\* according to where the exception came from.
R_setup ==
    /\ prog = "meteorite_collector" /\ pc = "r_setup"
    /\ \/ /\ pwm' = "obj"
          /\ servo_angle' = Angle(SERVO_CLOSED_ANGLE)
          /\ pc' = "r_read"
          /\ UNCHANGED raised
       \/ /\ pwm' \in {"None", "obj"}
          /\ UNCHANGED servo_angle
          /\ raised' = "SystemExit"
          /\ pc' = "r_exited"
    /\ UNCHANGED << prog, collector_is_open, bme280, current_altitude,
                    read_state, cycle_open, issued, cmd_result, prev_cmd,
                    run_alt, run_open, since_read >>
    /\ UNCHANGED RVars

\* Lines 122-125 and 139-142: where a cycle goes after the read.
MutRaisedReadSkipsPoll(how) ==
    IF how = "value" THEN "r_eval"
    ELSE IF how = "None" THEN "r_sleep_fault"
    ELSE "r_read"

AfterRead(how) ==
    IF how = "value" THEN "r_eval"
    ELSE IF how = "None" THEN "r_sleep_fault"
    ELSE "r_sleep_poll"

\* Line 121, current_altitude = bme280.altitude: a cycle begins.  The read
\* returns a number, returns None, or raises (caught at line 139).
R_read ==
    /\ prog = "meteorite_collector" /\ pc = "r_read"
    /\ cycle_open' = collector_is_open
    /\ prev_cmd' = IF issued # "none" THEN << issued, cmd_result >> ELSE prev_cmd
    /\ run_open' = IF issued # "none" THEN cycle_open ELSE run_open
    /\ issued' = "none"
    /\ cmd_result' = "none"
    /\ since_read' = 0
    /\ LET base == IF issued # "none" THEN current_altitude ELSE run_alt
       IN  \/ \E v \in Altitudes :
                /\ current_altitude' = Reading(v)
                /\ read_state' = "value"
                /\ run_alt' = IF Reading(v) = base THEN base ELSE NoAltitude
          \/ /\ current_altitude' = NoAltitude
             /\ read_state' = "None"
             /\ run_alt' = NoAltitude
          \/ /\ UNCHANGED current_altitude
             /\ read_state' = "raised"
             /\ run_alt' = NoAltitude
    /\ pc' = AfterRead(read_state')
    /\ UNCHANGED << prog, collector_is_open, bme280, pwm, servo_angle, raised >>
    /\ UNCHANGED RVars

\* open_collector() / close_collector(), lines 89-103: collector_is_open is
\* assigned the target after set_servo_angle() has returned, and not at all
\* when it raised.
MutDoorSetBeforeServo(cmd, returned, old) == (cmd = "open")

MutDoorNotUpdated(cmd, returned, old) == old

DoorAfterCommand(cmd, returned, old) ==
    IF returned THEN (cmd = "open") ELSE old

\* Lines 129-137 with the command they call.  set_servo_angle (lines 77-87)
\* writes the duty cycle, sleeps one second and writes 0; either write may
\* raise (caught at line 139), and KeyboardInterrupt may arrive in the sleep.
R_hysteresis ==
    /\ prog = "meteorite_collector" /\ pc = "r_eval"
    /\ LET cmd == HysteresisCommand(collector_is_open, current_altitude[1])
       IN  /\ issued' = cmd
           /\ IF cmd = "none"
              THEN /\ pc' = "r_sleep_poll"
                   /\ UNCHANGED << collector_is_open, servo_angle, cmd_result,
                                   since_read, raised >>
              ELSE IF pwm = "None"
              THEN \* set_servo_angle prints and returns (lines 80-82)
                   /\ collector_is_open' = DoorAfterCommand(cmd, TRUE, collector_is_open)
                   /\ cmd_result' = "ok"
                   /\ pc' = "r_sleep_poll"
                   /\ UNCHANGED << servo_angle, since_read, raised >>
              ELSE \E how \in {"ok", "raised_85", "raised_87", "interrupted"} :
                   /\ servo_angle' = IF how = "raised_85" THEN servo_angle
                                     ELSE Angle(TargetAngle(cmd))
                   /\ since_read' = IF how \in {"ok", "raised_87"}
                                    THEN since_read + SERVO_MOVE_TIME
                                    ELSE since_read
                   /\ collector_is_open' =
                          DoorAfterCommand(cmd, how = "ok", collector_is_open)
                   /\ cmd_result' = IF how = "ok" THEN "ok"
                                    ELSE IF how = "interrupted" THEN "interrupted"
                                    ELSE "raised"
                   /\ raised' = IF how = "interrupted" THEN "KeyboardInterrupt"
                                ELSE raised
                   /\ pc' = IF how = "interrupted" THEN "r_cleanup"
                            ELSE "r_sleep_poll"
    /\ UNCHANGED << prog, bme280, pwm, current_altitude, read_state,
                    cycle_open, prev_cmd, run_alt, run_open >>
    /\ UNCHANGED RVars

\* Line 125: `continue` after the sleep of line 124.
MutNoContinueAfterNone == "r_sleep_poll"

AfterFaultSleep == "r_read"

\* Lines 124-125: time.sleep(10); continue.
R_sleep_fault ==
    /\ prog = "meteorite_collector" /\ pc = "r_sleep_fault"
    /\ since_read' = since_read + FAULT_DELAY
    /\ pc' = AfterFaultSleep
    /\ UNCHANGED << prog, collector_is_open, bme280, pwm, servo_angle,
                    current_altitude, read_state, cycle_open, issued,
                    cmd_result, prev_cmd, run_alt, run_open, raised >>
    /\ UNCHANGED RVars

\* Line 142: time.sleep(30), then the next cycle.
R_sleep_poll ==
    /\ prog = "meteorite_collector" /\ pc = "r_sleep_poll"
    /\ since_read' = since_read + POLL_INTERVAL
    /\ pc' = "r_read"
    /\ UNCHANGED << prog, collector_is_open, bme280, pwm, servo_angle,
                    current_altitude, read_state, cycle_open, issued,
                    cmd_result, prev_cmd, run_alt, run_open, raised >>
    /\ UNCHANGED RVars

\* Lines 144-145: KeyboardInterrupt raised in the read or in a sleep of the
\* loop leaves the while loop.
R_KeyboardInterrupt ==
    /\ prog = "meteorite_collector"
    /\ pc \in {"r_read", "r_eval", "r_sleep_fault", "r_sleep_poll"}
    /\ raised' = "KeyboardInterrupt"
    /\ pc' = "r_cleanup"
    /\ UNCHANGED << prog, collector_is_open, bme280, pwm, servo_angle,
                    current_altitude, read_state, cycle_open, issued,
                    cmd_result, prev_cmd, run_alt, run_open, since_read >>
    /\ UNCHANGED RVars

\* Lines 146-151: pwm.stop() and GPIO.cleanup().
R_cleanup ==
    /\ prog = "meteorite_collector" /\ pc = "r_cleanup"
    /\ pc' = "r_done"
    /\ UNCHANGED << prog, collector_is_open, bme280, pwm, servo_angle,
                    current_altitude, read_state, cycle_open, issued,
                    cmd_result, prev_cmd, run_alt, run_open, since_read, raised >>
    /\ UNCHANGED RVars

-----------------------------------------------------------------------------
Next ==
    \/ A_init
    \/ A_setup
    \/ A_close
    \/ A_sensor_step
    \/ A_servo_step
    \/ A_KeyboardInterrupt
    \/ R_init
    \/ R_setup
    \/ R_read
    \/ R_hysteresis
    \/ R_sleep_fault
    \/ R_sleep_poll
    \/ R_KeyboardInterrupt
    \/ R_cleanup

Spec == Init /\ [][Next]_vars

\* The statements of the running script; KeyboardInterrupt is the
\* environment's.  Either script is one thread that keeps executing: the
\* next statement is taken whenever there is one.
ProgramStep ==
    \/ A_init
    \/ A_setup
    \/ A_close
    \/ A_sensor_step
    \/ A_servo_step
    \/ R_init
    \/ R_setup
    \/ R_read
    \/ R_hysteresis
    \/ R_sleep_fault
    \/ R_sleep_poll
    \/ R_cleanup

FairSpec == Init /\ [][Next]_vars /\ WF_vars(ProgramStep)

TypeOK ==
    /\ prog \in {"collector_arduino", "meteorite_collector"}
    /\ collector_is_open \in BOOLEAN
    /\ bme280_sensor \in {"None", "obj"}
    /\ collector_servo \in {"None", "obj"}
    /\ local_collector_servo \in {"unbound", "None"}
    /\ bme280 \in {"None", "obj"}
    /\ pwm \in {"None", "obj"}
    /\ issued \in {"none", "open", "close"}
    /\ cmd_result \in {"none", "ok", "raised", "interrupted"}
    /\ read_state \in {"unread", "value", "None", "raised"}

\* main_loop's local collector_servo is never bound: the one assignment to it
\* (line 174) lies after the read that raises.
LocalNeverBound == local_collector_servo = "unbound"

Arduino == prog = "collector_arduino"
Pi == prog = "meteorite_collector"

-----------------------------------------------------------------------------
(*                               Claims                                     *)

\* C1: an Open command is issued only in a cycle that began with the door
\* Closed and read an altitude strictly above ALTITUDE_OPEN; a Close command
\* only in a cycle that began Open and read strictly below ALTITUDE_CLOSE;
\* in every other cycle (thresholds and band included) no command is issued.
C1_CommandOnlyPastThreshold ==
    /\ issued = "open" =>
          /\ ~cycle_open
          /\ read_state = "value"
          /\ current_altitude[1] > 20000
    /\ issued = "close" =>
          /\ cycle_open
          /\ read_state = "value"
          /\ current_altitude[1] < 18000

C1_Witness ==
    /\ issued = "open"
    /\ ~cycle_open
    /\ current_altitude = Reading(20001)

\* C2 (as claimed): an exception other than RuntimeError raised in a cycle of
\* collector_arduino.main_loop resets both handles to None and the loop keeps
\* running.
C2_UnexpectedErrorKeepsLoop ==
    (Arduino /\ raised \notin {"none", "RuntimeError", "KeyboardInterrupt"}) =>
        /\ bme280_sensor = "None"
        /\ collector_servo = "None"
        /\ pc # "a_terminated"

\* C3 (as claimed): when a command issued by the hysteresis rule fails, the
\* servo handle is reset (health Faulted) in that cycle and the door state is
\* left as it was.
C3_FailedCommandFaultsServo ==
    (Pi /\ issued # "none" /\ cmd_result = "raised") =>
        /\ pwm = "None"
        /\ collector_is_open = cycle_open

\* C4: collector_is_open is a Boolean, False at startup, and a step changes it
\* only when a door command completed without error in that step, to that
\* command's target.
C4_DoorChangesOnlyBySuccessfulCommand ==
    /\ collector_is_open = FALSE
    /\ [](collector_is_open \in BOOLEAN)
    /\ [][ collector_is_open' # collector_is_open =>
              /\ issued' # "none"
              /\ cmd_result' = "ok"
              /\ collector_is_open' = (issued' = "open") ]_vars

C4_Witness ==
    /\ collector_is_open
    /\ cmd_result = "ok"
    /\ servo_angle = Angle(SERVO_OPEN_ANGLE)

\* C5 (as claimed): collector_arduino.main_loop ends only by an external
\* cancellation.
C5_LoopEndsOnlyByCancellation ==
    (Arduino /\ pc = "a_terminated") => raised = "KeyboardInterrupt"

\* C6 (as claimed): once the sensor has been re-initialized successfully at
\* the start of a cycle, evaluation resumes in that same cycle; the cycle is
\* not ended by an error.
C6_EvaluationResumesAfterReinit ==
    (Arduino /\ last_init = "reinit_ok" /\ pc = "a_terminated") =>
        raised = "KeyboardInterrupt"

\* C7: a cycle whose altitude read returned None changes nothing: the door
\* state and both handles are as they were, no command is issued, and the next
\* read comes after the fault delay alone (10 s, no poll-interval sleep).
C7_NoneReadingSkipsCycle ==
    (Pi /\ read_state = "None" /\ pc \in {"r_sleep_fault", "r_read"}) =>
        /\ collector_is_open = cycle_open
        /\ issued = "none"
        /\ cmd_result = "none"
        /\ bme280 = "obj"
        /\ pwm = "obj"
        /\ since_read = IF pc = "r_read" THEN 10 ELSE 0

C7_Witness ==
    /\ read_state = "None"
    /\ pc = "r_read"
    /\ since_read = 10
    /\ collector_is_open

\* C8 (as claimed): over consecutive cycles with the same reading and an
\* unchanged door state, the command issued last is never issued again.
C8_LastCommandNeverRepeated ==
    ~ ( /\ issued # "none"
        /\ prev_cmd[1] = issued
        /\ run_alt = current_altitude
        /\ run_open = cycle_open )

\* C8 (amended): over consecutive cycles with the same reading, a command
\* that completed successfully is never issued again.
C8_SucceededCommandNeverRepeated ==
    ~ ( /\ issued # "none"
        /\ prev_cmd = << issued, "ok" >>
        /\ run_alt = current_altitude )

C8_Witness ==
    /\ prev_cmd = << "open", "ok" >>
    /\ read_state = "value"
    /\ run_alt = current_altitude
    /\ pc = "r_sleep_poll"
    /\ issued = "none"

\* C9 (as claimed): in collector_arduino.main_loop the sensor handle is set
\* exactly when its latest initialization succeeded, and an error attributed
\* to the servo (a write that raised) leaves the servo handle None.
C9_HealthDiscipline ==
    Arduino =>
        /\ (bme280_sensor = "obj") <=> (last_init \in {"startup_ok", "reinit_ok"})
        /\ cmd_result = "raised" => collector_servo = "None"

\* C10: between two consecutive re-initialization attempts of a device that
\* keeps failing the loop sleeps 5 + 25 = 30 seconds, and a cycle whose
\* re-initialization failed takes no later step: it is back at the top of the
\* loop, having slept 25 seconds since the attempt.
C10_ReinitBackoff ==
    Arduino =>
        /\ prev_init = "reinit_fail" => reinit_gap = 30
        /\ (last_init = "reinit_fail" /\ pc # "a_terminated") =>
              /\ pc = "a_loop"
              /\ since_init = 25
              /\ bme280_sensor = "None"

C10_Witness ==
    /\ prev_init = "reinit_fail"
    /\ last_init = "reinit_fail"
    /\ reinit_gap = 30
    /\ pc = "a_loop"

\* C11 (as claimed): a cycle of collector_arduino.main_loop that finds the
\* servo handle None goes on to re-initialize the servo and, on success, to
\* the Close command of line 140 before the altitude is read; only a
\* cancellation ends the cycle at that point.
C11_FaultedServoIsReinitialized ==
    [][ (Arduino /\ pc = "a_servo_step" /\ collector_servo = "None"
                 /\ pc' = "a_terminated")
           => raised' = "KeyboardInterrupt" ]_vars

\* C12 (as claimed): the next altitude read after a None reading comes later
\* than the poll interval that follows a valid in-band reading.
C12_FaultDelayLongerThanPoll ==
    (Pi /\ pc = "r_read" /\ read_state = "None") => since_read > POLL_INTERVAL

\* C13 (as claimed): unless it is cancelled, collector_arduino.main_loop
\* never gives up: once initialization calls succeed, every Faulted device
\* becomes Ready and the altitude is polled again.
C13_FaultedDevicesRecover ==
    ( /\ [](Arduino /\ raised # "KeyboardInterrupt")
      /\ <>[](last_init \in {"startup_ok", "reinit_ok"}) )
    => <>( /\ bme280_sensor = "obj"
           /\ collector_servo = "obj"
           /\ read_state # "unread" )

CooperativeHigh ==
    /\ raised # "KeyboardInterrupt"
    /\ last_init \notin {"startup_fail", "reinit_fail"}
    /\ cmd_result # "raised"
    /\ pc \notin {"a_init", "a_setup"} => collector_servo = "obj"
    /\ read_state \in {"unread", "value"}
    /\ read_state = "value" => current_altitude[1] > ALTITUDE_OPEN

\* C16 (as claimed): with readings that stay above ALTITUDE_OPEN and hardware
\* that works, collector_arduino.main_loop eventually opens the door and
\* keeps it open.
C16_EventuallyOpen ==
    [](Arduino /\ CooperativeHigh) => <>[]collector_is_open

\* C17 (as claimed): in collector_arduino.main_loop, while the sensor handle
\* is None nothing is done to the servo: it is not initialized and no door
\* command is given, so the servo does not become Ready before the sensor.
C17_NothingOnServoWhileSensorFaulted ==
    [][ (Arduino /\ bme280_sensor = "None") =>
           /\ collector_servo' = collector_servo
           /\ servo_angle' = servo_angle
           /\ cmd_result' = cmd_result ]_vars

\* C17 (amended): the same within the loop, i.e. after the startup code of
\* lines 106-115: a cycle gets past the sensor step only with the sensor
\* handle set, and a cycle that finds it None touches neither the servo nor
\* the door state and, if the re-initialization fails, returns to the top of
\* the loop.
C17_SensorFirstInLoop ==
    /\ [](Arduino /\ pc = "a_servo_step" => bme280_sensor = "obj")
    /\ [][ (Arduino /\ pc = "a_loop" /\ bme280_sensor = "None") =>
              /\ collector_servo' = collector_servo
              /\ servo_angle' = servo_angle
              /\ cmd_result' = cmd_result
              /\ collector_is_open' = collector_is_open
              /\ bme280_sensor' = "None" => pc' \in {"a_loop", "a_terminated"} ]_vars

C17_Witness ==
    /\ Arduino
    /\ pc = "a_loop"
    /\ last_init = "reinit_fail"
    /\ bme280_sensor = "None"
    /\ collector_servo = "None"

\* C18: in meteorite_collector.main a cycle in which the read or the servo
\* command raised leaves collector_is_open as it was when the cycle began,
\* leaves both handles set (nothing is re-initialized) and is followed by the
\* poll-interval sleep and the next read; collector_is_open differs from its
\* value at the start of a cycle only after a command that returned.
C18_ExceptionLeavesStateAndSleeps ==
    Pi =>
        /\ (read_state = "raised" \/ cmd_result = "raised") =>
              /\ collector_is_open = cycle_open
              /\ bme280 = "obj"
              /\ pwm = "obj"
              /\ raised = "none" => pc \in {"r_sleep_poll", "r_read"}
              /\ pc = "r_read" => since_read \in {30, 31}
        /\ collector_is_open # cycle_open => cmd_result = "ok"

C18_Witness ==
    /\ Pi
    /\ pc = "r_read"
    /\ cmd_result = "raised"
    /\ since_read = 31
    /\ servo_angle = Angle(SERVO_OPEN_ANGLE)
    /\ ~collector_is_open

=============================================================================
